---- MODULE Spec2Model ----
(***************************************************************************)
(* A model of the ai-cloud-pricing-agent tools: the pricing catalog        *)
(* (MockSearchTool), the mock comparison / market-trend service with its   *)
(* client (MockExternalAPIServer, ExternalAPITool), the ChromaDB-backed    *)
(* knowledge store (VectorStoreTool) and the agent-level tool functions    *)
(* (CloudPricingAgent).                                                    *)
(*                                                                         *)
(* Units: prices are in cents (3.06 -> 306), percentages in tenths of a    *)
(* percent (8.5 -> 85, -2.1 -> -21).                                       *)
(* A Python Optional is a sequence: <<>> is None, <<x>> is the value x.    *)
(* A Python dict whose iteration order matters is a sequence of            *)
(* [key, val] entries in insertion order.                                  *)
(***************************************************************************)
EXTENDS Integers, Sequences, FiniteSets, TLC

VARIABLES
    data_file,      \* the file at MockSearchTool.data_file when the tool is constructed
    constructor_raised, \* the exception that left the tool's constructor, or None
    pricing_data,   \* MockSearchTool.pricing_data
    collection,     \* the ChromaDB collection: id -> [content, metadata]
    issued,         \* the ids uuid.uuid4() has returned so far
    deleted,        \* history: the ids delete_document has been called with
    writes,         \* number of add/update/delete calls made on the store
    collection_exists, \* whether the persist directory holds the collection
    agent,          \* the global `agent` of api.py: None or the CloudPricingAgent
    ctx,            \* per execution context: where it is inside a store method
    resp            \* the tool call that has returned and is not yet consumed

vars == <<data_file, constructor_raised, pricing_data, collection, issued, deleted, writes,
          collection_exists, agent, ctx, resp>>

----------------------------------------------------------------------------
(* Python values *)

None == <<>>
Some(x) == <<x>>

\* bool(x) of an Optional[int] / Optional[float]: None and 0 are falsy
TruthyNum(o) == o # None /\ o[1] # 0

\* bool(x) of an Optional[str]: None and "" are falsy
TruthyStr(o) == o # None /\ o[1] # ""

\* bool(list): a list is true when it is not empty
TruthyList(l) == l # <<>>

Entry(k, v) == [key |-> k, val |-> v]
DictKeys(d) == [i \in 1..Len(d) |-> d[i].key]
DictHas(d, k) == \E i \in 1..Len(d) : d[i].key = k
DictGet(d, k) == d[CHOOSE i \in 1..Len(d) : d[i].key = k].val

\* {}
EmptyDict == [k \in {} |-> k]

\* no call is waiting to be consumed
\* dict.get(key, default)
GetOr(d, k, default) == IF k \in DOMAIN d THEN d[k] ELSE default

\* the execution contexts that may be inside a store method at the same time
Contexts == {"t1", "t2"}
Idle == [pc |-> "idle"]
IdleContexts == [c \in Contexts |-> Idle]

NoCall == [op |-> "none"]

----------------------------------------------------------------------------
(* MockSearchTool: the pricing catalog *)

Instance(name, gpu_type, gpu_count, vcpus, memory_gb, price, region) ==
    [name |-> name, gpu_type |-> gpu_type, gpu_count |-> gpu_count,
     vcpus |-> vcpus, memory_gb |-> memory_gb, price_per_hour |-> price,
     region |-> region]

\* the "cloud_providers" dict of _create_default_data, each provider with the
\* instances of its "gpus" dict
default_cloud_providers ==
    << Entry("AWS", <<
         Entry("p3.2xlarge",  Instance("P3.2xlarge",  "V100", 1, 8,  61,  306,  "us-east-1")),
         Entry("p3.8xlarge",  Instance("P3.8xlarge",  "V100", 4, 32, 244, 1224, "us-east-1")),
         Entry("p3.16xlarge", Instance("P3.16xlarge", "V100", 8, 64, 488, 2448, "us-east-1")) >>),
       Entry("Azure", <<
         Entry("NC6",  Instance("NC6",  "K80", 1, 6,  56,  90,  "East US")),
         Entry("NC12", Instance("NC12", "K80", 2, 12, 112, 180, "East US")),
         Entry("NC24", Instance("NC24", "K80", 4, 24, 224, 360, "East US")) >>),
       Entry("GCP", <<
         Entry("n1-standard-8",  Instance("n1-standard-8 with Tesla K80",  "K80", 1, 8,  30,  70,  "us-central1")),
         Entry("n1-standard-16", Instance("n1-standard-16 with Tesla K80", "K80", 2, 16, 60,  140, "us-central1")),
         Entry("n1-standard-32", Instance("n1-standard-32 with Tesla K80", "K80", 4, 32, 120, 280, "us-central1")) >>) >>

\* MockSearchTool._create_default_data
create_default_data == [cloud_providers |-> default_cloud_providers]

\* the files the model puts at data_file. `content` is the parsed JSON text
\* (None when the text is not JSON); it is read only from a readable file.
DataFile(exists, readable, content) ==
    [exists |-> exists, readable |-> readable, content |-> content]

AbsentFile == DataFile(FALSE, FALSE, None)
UnreadableFile == DataFile(TRUE, FALSE, None)
InvalidJsonFile == DataFile(TRUE, TRUE, None)
\* the JSON text {}: an object without "cloud_providers"
NoProvidersFile == DataFile(TRUE, TRUE, Some(EmptyDict))
\* a pricing file with two providers of two instances each
SmallCatalogFile ==
    DataFile(TRUE, TRUE,
        Some([cloud_providers |->
            << Entry("AWS", SubSeq(DictGet(default_cloud_providers, "AWS"), 1, 2)),
               Entry("Azure", SubSeq(DictGet(default_cloud_providers, "Azure"), 1, 2)) >>]))

ExistingDataFiles == {UnreadableFile, InvalidJsonFile, NoProvidersFile, SmallCatalogFile}

\* _load_mock_data that catches nothing: a missing file raises too
load_mock_data_NoFallback(file) ==
    IF ~file.exists THEN [raised |-> "FileNotFoundError"]
    ELSE IF ~file.readable THEN [raised |-> "PermissionError"]
    ELSE IF file.content = None THEN [raised |-> "JSONDecodeError"]
    ELSE [pricing_data |-> file.content[1]]

\* MockSearchTool._load_mock_data: the pricing_data it sets, or the exception
\* that leaves it.  open() and json.load() are in a try whose only handler is
\* `except FileNotFoundError`
load_mock_data(file) ==
    IF ~file.exists THEN [pricing_data |-> create_default_data]
    ELSE IF ~file.readable THEN [raised |-> "PermissionError"]
    ELSE IF file.content = None THEN [raised |-> "JSONDecodeError"]
    ELSE [pricing_data |-> file.content[1]]

\* PassesFilters with the gpu_type test inverted (== for !=)
PassesFilters_GpuTypeInverted(instance_data, gpu_type, min_gpu_count, max_price) ==
    /\ ~(TruthyStr(gpu_type) /\ instance_data.gpu_type = gpu_type[1])
    /\ ~(TruthyNum(min_gpu_count) /\ instance_data.gpu_count < min_gpu_count[1])
    /\ ~(TruthyNum(max_price) /\ instance_data.price_per_hour > max_price[1])

\* the three `continue` filters of the inner loop: TRUE when the instance is kept
PassesFilters(instance_data, gpu_type, min_gpu_count, max_price) ==
    /\ ~(TruthyStr(gpu_type) /\ instance_data.gpu_type # gpu_type[1])
    /\ ~(TruthyNum(min_gpu_count) /\ instance_data.gpu_count < min_gpu_count[1])
    /\ ~(TruthyNum(max_price) /\ instance_data.price_per_hour > max_price[1])

\* providers_to_search = [provider] if provider else <all keys>
ProvidersToSearch(pd, provider) ==
    IF TruthyStr(provider) THEN <<provider[1]>> ELSE DictKeys(pd)

\* ProviderResults that searches the first provider of the catalog when the
\* requested one is not a key of it, in place of `continue`
ProviderResults_UnknownAsFirst(pd, prov, gpu_type, min_gpu_count, max_price) ==
    LET p == IF DictHas(pd, prov) THEN prov ELSE DictKeys(pd)[1]
        gpus == DictGet(pd, p)
        kept == SelectSeq(gpus, LAMBDA e :
                    PassesFilters(e.val, gpu_type, min_gpu_count, max_price))
    IN  [i \in 1..Len(kept) |->
            [provider |-> p, instance_type |-> kept[i].key] @@ kept[i].val]

\* the records one provider contributes, in the order of its "gpus" dict
ProviderResults(pd, prov, gpu_type, min_gpu_count, max_price) ==
    IF ~DictHas(pd, prov) THEN <<>>
    ELSE LET gpus == DictGet(pd, prov)
             kept == SelectSeq(gpus, LAMBDA e :
                         PassesFilters(e.val, gpu_type, min_gpu_count, max_price))
         IN  [i \in 1..Len(kept) |->
                 [provider |-> prov, instance_type |-> kept[i].key] @@ kept[i].val]

RECURSIVE CollectResults(_, _, _, _, _)
CollectResults(pd, provs, gpu_type, min_gpu_count, max_price) ==
    IF provs = <<>> THEN <<>>
    ELSE ProviderResults(pd, Head(provs), gpu_type, min_gpu_count, max_price)
         \o CollectResults(pd, Tail(provs), gpu_type, min_gpu_count, max_price)

\* random.shuffle(results): any permutation of the list
Shuffle(s) == {[i \in 1..Len(s) |-> s[p[i]]] : p \in Permutations(1..Len(s))}

\* MockSearchTool.search_gpu_pricing: the set of lists it can return
search_gpu_pricing(pd, provider, gpu_type, min_gpu_count, max_price) ==
    Shuffle(CollectResults(pd, ProvidersToSearch(pd, provider),
                           gpu_type, min_gpu_count, max_price))

\* arguments the reasoning component passes to the search tool
ProviderArgs ==
    {None, Some("AWS"), Some("Azure"), Some("GCP"), Some("aws"), Some("Aws"), Some("IBM")}
GpuTypeArgs == {None, Some("V100"), Some("K80")}
MinGpuCountArgs == {None, Some(2), Some(8)}
MaxPriceArgs == {None, Some(0), Some(180), Some(306)}

\* results[:10] of the agent's listing
DisplayLimit == 10

\* render_gpu_pricing that writes the trailer from DisplayLimit results on
\* (>= for >)
render_gpu_pricing_TrailerAtLimit(results) ==
    IF ~TruthyList(results)
    THEN [text |-> "No GPU instances found matching the specified criteria."]
    ELSE [text |-> "Found GPU instances", found |-> Len(results),
          listed |-> SubSeq(results, 1, IF Len(results) < DisplayLimit
                                        THEN Len(results) ELSE DisplayLimit),
          more |-> IF Len(results) >= DisplayLimit
                   THEN Some(Len(results) - DisplayLimit) ELSE None]

\* CloudPricingAgent.search_gpu_pricing after the tool returned `results`: the
\* text of the tool, as its fixed sentence or as the count in the header, the
\* records listed and the count in the "... more results" trailer
render_gpu_pricing(results) ==
    IF ~TruthyList(results)
    THEN [text |-> "No GPU instances found matching the specified criteria."]
    ELSE [text |-> "Found GPU instances", found |-> Len(results),
          listed |-> SubSeq(results, 1, IF Len(results) < DisplayLimit
                                        THEN Len(results) ELSE DisplayLimit),
          more |-> IF Len(results) > DisplayLimit
                   THEN Some(Len(results) - DisplayLimit) ELSE None]

\* search_gpu_pricing that filters the catalog in place: the instances that
\* fail a filter are removed from pricing_data
SearchGpuPricing_FiltersInPlace ==
    /\ resp = NoCall
    /\ constructor_raised = None
    /\ "cloud_providers" \in DOMAIN pricing_data
    /\ \E provider \in ProviderArgs, gpu_type \in GpuTypeArgs,
          min_gpu_count \in MinGpuCountArgs, max_price \in MaxPriceArgs :
         LET pd == pricing_data.cloud_providers
             kept == [i \in 1..Len(pd) |->
                        Entry(pd[i].key,
                              SelectSeq(pd[i].val, LAMBDA e :
                                  PassesFilters(e.val, gpu_type, min_gpu_count, max_price)))]
         IN  \E results \in search_gpu_pricing(pd, provider, gpu_type,
                                               min_gpu_count, max_price) :
                /\ resp' = [op |-> "search_gpu_pricing", provider |-> provider,
                            gpu_type |-> gpu_type, min_gpu_count |-> min_gpu_count,
                            max_price |-> max_price, results |-> results,
                            out |-> render_gpu_pricing(results)]
                /\ pricing_data' = [cloud_providers |-> kept]
    /\ UNCHANGED <<collection_exists, agent, ctx, data_file, constructor_raised, collection, issued, deleted, writes>>

\* CloudPricingAgent.search_gpu_pricing on a constructed tool.  Both the
\* provider lookup and the list of all providers read
\* pricing_data["cloud_providers"]: without that key the call raises KeyError
SearchGpuPricing ==
    /\ resp = NoCall
    /\ constructor_raised = None
    /\ \E provider \in ProviderArgs, gpu_type \in GpuTypeArgs,
          min_gpu_count \in MinGpuCountArgs, max_price \in MaxPriceArgs :
         IF "cloud_providers" \in DOMAIN pricing_data
         THEN \E results \in search_gpu_pricing(pricing_data.cloud_providers, provider,
                                                gpu_type, min_gpu_count, max_price) :
                 resp' = [op |-> "search_gpu_pricing", provider |-> provider,
                          gpu_type |-> gpu_type, min_gpu_count |-> min_gpu_count,
                          max_price |-> max_price, results |-> results,
                          out |-> render_gpu_pricing(results)]
         ELSE resp' = [op |-> "search_gpu_pricing", provider |-> provider,
                       gpu_type |-> gpu_type, min_gpu_count |-> min_gpu_count,
                       max_price |-> max_price, raised |-> "KeyError"]
    /\ UNCHANGED <<collection_exists, agent, ctx, data_file, constructor_raised, pricing_data,
                 collection, issued, deleted, writes>>

\* the longest list the search tool hands to the agent in SpecRender
MaxFound == 12

\* the k-th record of a pricing file with more records than the agent lists
LargeCatalogRecord(k) ==
    [provider |-> "AWS", instance_type |-> "instance-" \o ToString(k)]
        @@ Instance("Instance " \o ToString(k), "V100", 1, 8, 61, 300 + k, "us-east-1")

\* lists the search tool can return from such a file: n records, starting
\* anywhere in the file (the shuffle orders are not all enumerated)
LargeResultLists ==
    {[i \in 1..n |-> LargeCatalogRecord(((first + i - 2) % MaxFound) + 1)] :
        n \in 0..MaxFound, first \in 1..MaxFound}

\* CloudPricingAgent.search_gpu_pricing from the point where the tool has
\* returned its list
RenderGpuPricing ==
    /\ resp = NoCall
    /\ \E results \in LargeResultLists :
         resp' = [op |-> "render_gpu_pricing", results |-> results,
                  out |-> render_gpu_pricing(results)]
    /\ UNCHANGED <<collection_exists, agent, ctx, data_file, constructor_raised, pricing_data,
                 collection, issued, deleted, writes>>

\* queries of search_general
GeneralQueryArgs == {"GPU price list", "Which cloud providers?", "hello"}

\* query.lower()
LowerQuery(query) ==
    CASE query = "GPU price list" -> "gpu price list"
      [] query = "Which cloud providers?" -> "which cloud providers?"
      [] query = "hello" -> "hello"

\* `word in query_lower` for the words search_general looks for
Contains(query_lower, word) ==
    CASE query_lower = "gpu price list" -> word \in {"gpu", "price"}
      [] query_lower = "which cloud providers?" -> word \in {"cloud", "provider"}
      [] query_lower = "hello" -> FALSE

\* the branch search_general takes
GeneralType(query) ==
    LET query_lower == LowerQuery(query)
    IN  IF Contains(query_lower, "gpu")
           /\ (Contains(query_lower, "price") \/ Contains(query_lower, "cost"))
        THEN "gpu_pricing"
        ELSE IF Contains(query_lower, "cloud") /\ Contains(query_lower, "provider")
        THEN "cloud_providers"
        ELSE "general"

\* MockSearchTool.search_general: the set of dicts it can return, for
\* pricing_data that has "cloud_providers"
search_general(pd, query) ==
    CASE GeneralType(query) = "gpu_pricing" ->
            {[type |-> "gpu_pricing", results |-> results, query |-> query] :
                results \in search_gpu_pricing(pd.cloud_providers, None, None, None, None)}
      [] GeneralType(query) = "cloud_providers" ->
            {[type |-> "cloud_providers", results |-> DictKeys(pd.cloud_providers),
              query |-> query]}
      [] OTHER ->
            {[type |-> "general", results |-> "Mock search results for: " \o query,
              query |-> query]}

\* MockSearchTool.search_general on a constructed tool; the first two branches
\* read pricing_data["cloud_providers"] and raise KeyError without it
SearchGeneral ==
    /\ resp = NoCall
    /\ constructor_raised = None
    /\ \E query \in GeneralQueryArgs :
         IF "cloud_providers" \in DOMAIN pricing_data \/ GeneralType(query) = "general"
         THEN \E result \in search_general(pricing_data, query) :
                 resp' = [op |-> "search_general", query |-> query, result |-> result]
         ELSE resp' = [op |-> "search_general", query |-> query,
                       result |-> [raised |-> "KeyError"]]
    /\ UNCHANGED <<collection_exists, agent, ctx, data_file, constructor_raised, pricing_data,
                 collection, issued, deleted, writes>>

\* the tool's return value is handed back to the agent loop, which may call again
Return ==
    /\ resp # NoCall
    /\ resp' = NoCall
    /\ UNCHANGED <<collection_exists, agent, ctx, data_file, constructor_raised, pricing_data,
                 collection, issued, deleted, writes>>

----------------------------------------------------------------------------
(* str.upper() / str.lower() on the provider spellings the model uses *)

ProviderSpellings == {"AWS", "aws", "Aws", "Azure", "AZURE", "azure", "GCP", "gcp", "IBM"}

Upper(s) ==
    CASE s \in {"AWS", "aws", "Aws"} -> "AWS"
      [] s \in {"Azure", "AZURE", "azure"} -> "AZURE"
      [] s \in {"GCP", "gcp"} -> "GCP"
      [] s \in {"IBM"} -> "IBM"

Lower(s) ==
    CASE s \in {"AWS", "aws", "Aws"} -> "aws"
      [] s \in {"Azure", "AZURE", "azure"} -> "azure"
      [] s \in {"GCP", "gcp"} -> "gcp"
      [] s \in {"IBM"} -> "ibm"

\* f"{p}_price"
PriceKey(p) == p \o "_price"

\* dict.get(key): None when the key is missing
Get(d, k) == IF k \in DOMAIN d THEN Some(d[k]) ELSE None

----------------------------------------------------------------------------
(* MockExternalAPIServer: POST /compare-prices *)

\* mock_comparisons whose first entry recommends the dearer provider
mock_comparisons_DearerRecommended ==
    << Entry(<<"AWS", "AZURE">>, <<
         Entry("p3.2xlarge", [aws_price |-> 306, azure_price |-> 280,
                              recommendation |-> "AWS", savings_percent |-> 85]),
         Entry("p3.8xlarge", [aws_price |-> 1224, azure_price |-> 1120,
                              recommendation |-> "Azure", savings_percent |-> 85]) >>),
       Entry(<<"AWS", "GCP">>, <<
         Entry("p3.2xlarge", [aws_price |-> 306, gcp_price |-> 290,
                              recommendation |-> "GCP", savings_percent |-> 52]) >>),
       Entry(<<"AZURE", "GCP">>, <<
         Entry("NC6", [azure_price |-> 90, gcp_price |-> 70,
                       recommendation |-> "GCP", savings_percent |-> 222]) >>) >>

\* mock_comparisons whose last entry carries the saving relative to the lower
\* price (28.6) in place of the higher one (22.2)
mock_comparisons_SavingsOfLower ==
    << Entry(<<"AWS", "AZURE">>, <<
         Entry("p3.2xlarge", [aws_price |-> 306, azure_price |-> 280,
                              recommendation |-> "Azure", savings_percent |-> 85]),
         Entry("p3.8xlarge", [aws_price |-> 1224, azure_price |-> 1120,
                              recommendation |-> "Azure", savings_percent |-> 85]) >>),
       Entry(<<"AWS", "GCP">>, <<
         Entry("p3.2xlarge", [aws_price |-> 306, gcp_price |-> 290,
                              recommendation |-> "GCP", savings_percent |-> 52]) >>),
       Entry(<<"AZURE", "GCP">>, <<
         Entry("NC6", [azure_price |-> 90, gcp_price |-> 70,
                       recommendation |-> "GCP", savings_percent |-> 286]) >>) >>

mock_comparisons ==
    << Entry(<<"AWS", "AZURE">>, <<
         Entry("p3.2xlarge", [aws_price |-> 306, azure_price |-> 280,
                              recommendation |-> "Azure", savings_percent |-> 85]),
         Entry("p3.8xlarge", [aws_price |-> 1224, azure_price |-> 1120,
                              recommendation |-> "Azure", savings_percent |-> 85]) >>),
       Entry(<<"AWS", "GCP">>, <<
         Entry("p3.2xlarge", [aws_price |-> 306, gcp_price |-> 290,
                              recommendation |-> "GCP", savings_percent |-> 52]) >>),
       Entry(<<"AZURE", "GCP">>, <<
         Entry("NC6", [azure_price |-> 90, gcp_price |-> 70,
                       recommendation |-> "GCP", savings_percent |-> 222]) >>) >>

\* key in mock_comparisons and instance_type in mock_comparisons[key]
HasComparison(key, instance_type) ==
    /\ DictHas(mock_comparisons, key)
    /\ DictHas(DictGet(mock_comparisons, key), instance_type)

\* the "comparison" dict of a 200 response; first_key / second_key are the stored
\* price fields the handler reads for provider1 and provider2
ComparisonBody(provider1, provider2, instance_type, data, first_key, second_key) ==
    [instance_type |-> instance_type,
     recommendation |-> data.recommendation,
     savings_percent |-> data.savings_percent]
    @@ (PriceKey(Lower(provider2)) :> data[second_key])
    @@ (PriceKey(Lower(provider1)) :> data[first_key])

\* the route handler: the HTTP response to a request that reached the server
server_compare_prices(request_provider1, request_provider2, instance_type) ==
    LET provider1 == Upper(request_provider1)
        provider2 == Upper(request_provider2)
        key == <<provider1, provider2>>
        reverse_key == <<provider2, provider1>>
    IN  IF HasComparison(key, instance_type)
        THEN LET data == DictGet(DictGet(mock_comparisons, key), instance_type)
             IN  [status_code |-> 200,
                  body |-> [comparison |->
                               ComparisonBody(provider1, provider2, instance_type, data,
                                              PriceKey(Lower(provider1)),
                                              PriceKey(Lower(provider2))),
                            status |-> "success"]]
        ELSE IF HasComparison(reverse_key, instance_type)
        THEN LET data == DictGet(DictGet(mock_comparisons, reverse_key), instance_type)
             IN  [status_code |-> 200,
                  body |-> [comparison |->
                               ComparisonBody(provider1, provider2, instance_type, data,
                                              PriceKey(Lower(reverse_key[1])),
                                              PriceKey(Lower(reverse_key[2]))),
                            status |-> "success"]]
        ELSE [status_code |-> 404,
              body |-> [detail |-> <<"No comparison data available for",
                                     provider1, provider2, instance_type>>]]

----------------------------------------------------------------------------
(* MockExternalAPIServer: GET /market-trends *)

trends ==
    [overall_trend |-> "prices_decreasing",
     average_change_percent |-> -52,
     providers |-> << Entry("AWS",   [trend |-> "stable",     change_percent |-> -21]),
                      Entry("Azure", [trend |-> "decreasing", change_percent |-> -85]),
                      Entry("GCP",   [trend |-> "decreasing", change_percent |-> -63]) >>]

server_get_market_trends(provider) ==
    IF TruthyStr(provider)
    THEN LET prov == Upper(provider[1])
         IN  IF DictHas(trends.providers, prov)
             THEN [status_code |-> 200,
                   body |-> [provider |-> prov, status |-> "success"]
                            @@ DictGet(trends.providers, prov)]
             ELSE [status_code |-> 404,
                   body |-> [detail |-> <<"Provider not found", prov>>]]
    ELSE [status_code |-> 200,
          body |-> [market_trends |-> trends, status |-> "success"]]

----------------------------------------------------------------------------
(* ExternalAPITool: the HTTP client.  `reachable` is whether the request got *)
(* a response at all.  A call returns a dict, or [raised |-> e] when an      *)
(* exception e leaves it.                                                    *)

\* RequestError without the raise_for_status() call
RequestError_NoStatusCheck(reachable, response) ==
    IF ~reachable THEN "ConnectionError" ELSE "ok"

\* session.post / session.get followed by response.raise_for_status(): the
\* exception raised, or "ok"
RequestError(reachable, response) ==
    IF ~reachable THEN "ConnectionError"
    ELSE IF response.status_code >= 400 THEN "HTTPError" ELSE "ok"

\* except requests.RequestException
IsRequestException(e) == e \in {"ConnectionError", "HTTPError", "Timeout"}

client_compare_prices(provider1, provider2, instance_type, reachable) ==
    LET response == server_compare_prices(provider1, provider2, instance_type)
        e == RequestError(reachable, response)
    IN  IF e = "ok" THEN response.body
        ELSE IF IsRequestException(e)
        THEN [comparison |-> [error |-> <<"API request failed", e>>,
                              provider1 |-> provider1,
                              provider2 |-> provider2,
                              instance_type |-> instance_type],
              status |-> "error"]
        ELSE [raised |-> e]

client_get_market_trends(provider, reachable) ==
    LET response == server_get_market_trends(provider)
        e == RequestError(reachable, response)
    IN  IF e = "ok" THEN response.body
        ELSE IF IsRequestException(e)
        THEN [market_trends |-> [error |-> <<"API request failed", e>>,
                                 overall_trend |-> "unknown"],
              status |-> "error"]
        ELSE [raised |-> e]

----------------------------------------------------------------------------
(* CloudPricingAgent: the tool functions over the client.  The returned text *)
(* is modelled by the values it is formatted from.                           *)


compare_cloud_prices(provider1, provider2, instance_type, result) ==
    IF "raised" \in DOMAIN result THEN result
    ELSE IF GetOr(result, "status", "") = "error"
    THEN [text |-> "Unable to compare prices",
          error |-> GetOr(GetOr(result, "comparison", EmptyDict), "error", "Unknown error")]
    ELSE LET comparison == GetOr(result, "comparison", EmptyDict)
             p1_price == Get(comparison, PriceKey(Lower(provider1)))
             p2_price == Get(comparison, PriceKey(Lower(provider2)))
             header == [text |-> "Price Comparison",
                        provider1 |-> provider1, provider2 |-> provider2,
                        instance_type |-> instance_type]
         IN  IF p1_price # None /\ p2_price # None
             THEN LET savings == GetOr(comparison, "savings_percent", 0)
                  IN  header @@
                      [p1_price |-> p1_price[1], p2_price |-> p2_price[1],
                       recommendation |-> GetOr(comparison, "recommendation", provider1),
                       savings |-> IF savings > 0 THEN Some(savings) ELSE None]
             ELSE header

get_market_trends(provider, result) ==
    IF "raised" \in DOMAIN result THEN result
    ELSE IF GetOr(result, "status", "") = "error"
    THEN [text |-> "Unable to fetch market trends",
          error |-> GetOr(GetOr(result, "market_trends", EmptyDict), "error", "Unknown error")]
    ELSE IF TruthyStr(provider)
    THEN [text |-> "Market Trends for", provider |-> provider[1],
          trend |-> GetOr(result, "trend", "unknown"),
          change_percent |-> GetOr(result, "change_percent", 0)]
    ELSE LET market == GetOr(result, "market_trends", EmptyDict)
         IN  [text |-> "Cloud Market Trends",
              overall_trend |-> GetOr(market, "overall_trend", "unknown"),
              average_change |-> GetOr(market, "average_change_percent", 0),
              breakdown |-> GetOr(market, "providers", <<>>)]

\* arguments the reasoning component passes to the comparison and trend tools
InstanceTypeArgs == {"p3.2xlarge", "p3.8xlarge", "NC6", "V100"}
TrendProviderArgs == {None} \cup {Some(p) : p \in ProviderSpellings}

CompareCloudPrices ==
    /\ resp = NoCall
    /\ \E provider1 \in ProviderSpellings, provider2 \in ProviderSpellings,
          instance_type \in InstanceTypeArgs, reachable \in BOOLEAN :
         LET result == client_compare_prices(provider1, provider2, instance_type, reachable)
         IN  resp' = [op |-> "compare_cloud_prices",
                      provider1 |-> provider1, provider2 |-> provider2,
                      instance_type |-> instance_type, reachable |-> reachable,
                      result |-> result,
                      out |-> compare_cloud_prices(provider1, provider2, instance_type, result)]
    /\ UNCHANGED <<collection_exists, agent, ctx, data_file, constructor_raised, pricing_data,
                 collection, issued, deleted, writes>>

GetMarketTrends ==
    /\ resp = NoCall
    /\ \E provider \in TrendProviderArgs, reachable \in BOOLEAN :
         LET result == client_get_market_trends(provider, reachable)
         IN  resp' = [op |-> "get_market_trends",
                      provider |-> provider, reachable |-> reachable,
                      result |-> result,
                      out |-> get_market_trends(provider, result)]
    /\ UNCHANGED <<collection_exists, agent, ctx, data_file, constructor_raised, pricing_data,
                 collection, issued, deleted, writes>>

----------------------------------------------------------------------------
(* VectorStoreTool: the knowledge store.                                     *)
(* The ChromaDB collection is a mapping id -> [content, metadata]; metadata  *)
(* is a mapping of string keys to string values.  Texts are abbreviated.     *)

MaxWrites == 2      \* add/update/delete calls in one run
MaxResults == 2     \* largest n_results asked for

\* uuid4 that returns the same id every time
uuid4_Repeating(used) == "uuid-1"

\* str(uuid.uuid4()): an id that was never returned before
uuid4(used) == "uuid-" \o ToString(Cardinality(used) + 1)

Document(content, metadata) == [content |-> content, metadata |-> metadata]

\* the `documents` list of _populate_initial_data, without the ids
InitialDocuments ==
    << Document("AWS P3 instances are optimized for machine learning",
                [provider |-> "AWS", instance_family |-> "P3",
                 gpu_type |-> "V100", use_case |-> "machine_learning"]),
       Document("Azure NC series VMs are designed for compute-intensive applications",
                [provider |-> "Azure", instance_family |-> "NC",
                 gpu_type |-> "K80", use_case |-> "graphics_compute"]),
       Document("Google Cloud Platform offers GPU instances",
                [provider |-> "GCP", gpu_types |-> "K80, P100, V100, A100",
                 pricing_models |-> "on-demand, preemptible",
                 use_case |-> "flexible_compute"]),
       Document("Cost optimization strategies for GPU instances",
                [topic |-> "cost_optimization",
                 strategies |-> "spot_instances, right_sizing, reserved_instances",
                 applicable_providers |-> "AWS, Azure, GCP"]),
       Document("AWS pricing: P3.2xlarge costs $3.06/hour",
                [provider |-> "AWS", region |-> "us-east-1",
                 instances |-> "p3.2xlarge, p3.8xlarge, p3.16xlarge",
                 prices |-> "3.06, 12.24, 24.48"]),
       Document("Azure pricing: NC6 costs $0.90/hour",
                [provider |-> "Azure", region |-> "East US",
                 instances |-> "NC6, NC12, NC24", prices |-> "0.90, 1.80, 3.60"]),
       Document("GCP pricing: n1-standard-8 with K80 GPU costs $0.70/hour",
                [provider |-> "GCP", region |-> "us-central1",
                 instances |-> "n1-standard-8, n1-standard-16, n1-standard-32",
                 prices |-> "0.70, 1.40, 2.80"]) >>

\* Collection.add(documents=[content], metadatas=[metadata], ids=[doc_id])
collection_add(coll, doc_id, content, metadata) ==
    IF doc_id \in DOMAIN coll THEN coll
    ELSE coll @@ (doc_id :> Document(content, metadata))

\* Collection.update(ids=[doc_id], documents=[content], metadatas=[metadata]):
\* an id that is not stored is logged and skipped; for a stored id the document
\* is replaced and the given metadata keys are written over the stored metadata
\* (the persistent client's store keeps the stored keys that are not given)
collection_update(coll, doc_id, content, metadata) ==
    IF doc_id \notin DOMAIN coll THEN coll
    ELSE [coll EXCEPT ![doc_id] = Document(content, metadata @@ coll[doc_id].metadata)]

\* Collection.delete(ids=[doc_id])
collection_delete(coll, doc_id) ==
    [id \in DOMAIN coll \ {doc_id} |-> coll[id]]

\* _initialize_collection on a fresh persist directory: create_collection,
\* then _populate_initial_data adds the seed documents, each under a new uuid
RECURSIVE populate_initial_data(_, _)
populate_initial_data(coll, docs) ==
    IF docs = <<>> THEN coll
    ELSE populate_initial_data(
             collection_add(coll, uuid4(DOMAIN coll), Head(docs).content, Head(docs).metadata),
             Tail(docs))

\* the position of a text in the embedding space (an abstraction of the
\* embedding function: the distance of two texts is the distance of their positions)
Embedding(text) ==
    CASE text = "AWS P3 instances are optimized for machine learning" -> 10
      [] text = "Azure NC series VMs are designed for compute-intensive applications" -> 20
      [] text = "Google Cloud Platform offers GPU instances" -> 30
      [] text = "Cost optimization strategies for GPU instances" -> 40
      [] text = "AWS pricing: P3.2xlarge costs $3.06/hour" -> 12
      [] text = "Azure pricing: NC6 costs $0.90/hour" -> 22
      [] text = "GCP pricing: n1-standard-8 with K80 GPU costs $0.70/hour" -> 32
      [] text = "AWS spot instances cut GPU cost" -> 14
      [] text = "Reserved capacity planning" -> 44
      [] text = "AWS GPU pricing" -> 11
      [] text = "cost optimization" -> 41
      [] text = "Azure GPU VMs" -> 21

Distance(query, content) ==
    LET d == Embedding(query) - Embedding(content) IN IF d < 0 THEN -d ELSE d

\* a `where` filter {key: value}: the metadata has the key with that value
MatchesWhere(metadata, where) ==
    where = None \/ (where[1].key \in DOMAIN metadata /\ metadata[where[1].key] = where[1].val)

\* Collection.query(query_texts=[query], n_results=n_results, where=where): the
\* n_results nearest documents among those passing the filter, nearest first
\* (fewer when fewer pass); documents at equal distance come in any order
collection_query(coll, query, n_results, where) ==
    LET cands == {id \in DOMAIN coll : MatchesWhere(coll[id].metadata, where)}
        k == IF n_results < Cardinality(cands) THEN n_results ELSE Cardinality(cands)
        dist(id) == Distance(query, coll[id].content)
        ranked == {ids \in [1..k -> cands] :
                     /\ \A i, j \in 1..k : i < j => ids[i] # ids[j] /\ dist(ids[i]) <= dist(ids[j])
                     /\ \A c \in cands : (\A i \in 1..k : ids[i] # c)
                                           => \A i \in 1..k : dist(ids[i]) <= dist(c)}
    IN  {[ids |-> <<ids>>,
          documents |-> <<[i \in 1..k |-> coll[ids[i]].content]>>,
          metadatas |-> <<[i \in 1..k |-> coll[ids[i]].metadata]>>,
          distances |-> <<[i \in 1..k |-> dist(ids[i])]>>] : ids \in ranked}

\* Collection.query checks n_results before it searches: it must be positive
validate_n_results(n_results) == n_results > 0

\* VectorStoreTool.search_similar: the dict it returns, or the exception that
\* leaves it (the call to Collection.query is not inside a try)
search_similar(coll, query, n_results, where) ==
    IF ~validate_n_results(n_results)
    THEN {[raised |-> "n_results must be positive"]}
    ELSE {[query |-> query, results |-> results] :
            results \in collection_query(coll, query, n_results, where)}

\* Collection.get(ids=[doc_id])
collection_get(coll, doc_id) ==
    IF doc_id \in DOMAIN coll
    THEN [ids |-> <<doc_id>>, documents |-> <<coll[doc_id].content>>,
          metadatas |-> <<coll[doc_id].metadata>>]
    ELSE [ids |-> <<>>, documents |-> <<>>, metadatas |-> <<>>]

\* VectorStoreTool.get_document_by_id: the dict it returns, or None
get_document_by_id(coll, doc_id) ==
    LET result == collection_get(coll, doc_id)
    IN  IF result.documents # <<>>
        THEN Some([id |-> doc_id, content |-> result.documents[1],
                   metadata |-> result.metadatas[1]])
        ELSE None

\* VectorStoreTool.update_document: the collection afterwards
update_document(coll, doc_id, content, metadata) ==
    collection_update(coll, doc_id, content, metadata)

\* delete_document that leaves the collection as it is
delete_document_NoOp(coll, doc_id) == coll

\* VectorStoreTool.delete_document: the collection afterwards
delete_document(coll, doc_id) ==
    collection_delete(coll, doc_id)

\* arguments of the knowledge-store calls
NewDocuments ==
    { Document("AWS spot instances cut GPU cost", [provider |-> "AWS", topic |-> "spot"]),
      Document("Reserved capacity planning", [topic |-> "planning"]) }
QueryArgs == {"AWS GPU pricing", "cost optimization", "Azure GPU VMs"}
WhereArgs == {None, Some(Entry("provider", "AWS")), Some(Entry("provider", "GCP")),
              Some(Entry("provider", "Oracle"))}
DocIdArgs == issued \cup {"no-such-id"}

AddDocument ==
    /\ resp = NoCall
    /\ constructor_raised = None
    /\ writes < MaxWrites
    /\ \E d \in NewDocuments :
         LET doc_id == uuid4(issued)
         IN  /\ collection' = collection_add(collection, doc_id, d.content, d.metadata)
             /\ issued' = issued \cup {doc_id}
             /\ resp' = [op |-> "add_document", content |-> d.content,
                         metadata |-> d.metadata, doc_id |-> doc_id,
                         before |-> collection]
    /\ writes' = writes + 1
    /\ UNCHANGED <<collection_exists, agent, ctx, data_file, constructor_raised, pricing_data, deleted>>

\* update_document and delete_document have no existence check of their own and
\* the collection raises nothing for an id it does not hold: both return
\* normally (raised is None) whether or not the id is stored
UpdateDocument ==
    /\ resp = NoCall
    /\ constructor_raised = None
    /\ writes < MaxWrites
    /\ \E doc_id \in DocIdArgs, d \in NewDocuments :
         /\ collection' = update_document(collection, doc_id, d.content, d.metadata)
         /\ resp' = [op |-> "update_document", doc_id |-> doc_id,
                     content |-> d.content, metadata |-> d.metadata,
                     before |-> collection, raised |-> None]
    /\ writes' = writes + 1
    /\ UNCHANGED <<collection_exists, agent, ctx, data_file, constructor_raised, pricing_data, issued, deleted>>

DeleteDocument ==
    /\ resp = NoCall
    /\ constructor_raised = None
    /\ writes < MaxWrites
    /\ \E doc_id \in DocIdArgs :
         /\ collection' = delete_document(collection, doc_id)
         /\ deleted' = deleted \cup {doc_id}
         /\ resp' = [op |-> "delete_document", doc_id |-> doc_id,
                     before |-> collection, raised |-> None]
    /\ writes' = writes + 1
    /\ UNCHANGED <<collection_exists, agent, ctx, data_file, constructor_raised, pricing_data, issued>>

SearchSimilar ==
    /\ resp = NoCall
    /\ constructor_raised = None
    /\ \E query \in QueryArgs, n_results \in 0..MaxResults, where \in WhereArgs :
         \E result \in search_similar(collection, query, n_results, where) :
            resp' = [op |-> "search_similar", query |-> query,
                     n_results |-> n_results, where |-> where,
                     result |-> result]
    /\ UNCHANGED <<collection_exists, agent, ctx, data_file, constructor_raised, pricing_data,
                 collection, issued, deleted, writes>>

GetDocumentById ==
    /\ resp = NoCall
    /\ constructor_raised = None
    /\ \E doc_id \in DocIdArgs :
         resp' = [op |-> "get_document_by_id", doc_id |-> doc_id,
                  result |-> get_document_by_id(collection, doc_id)]
    /\ UNCHANGED <<collection_exists, agent, ctx, data_file, constructor_raised, pricing_data,
                 collection, issued, deleted, writes>>

\* one "Result i" block of search_knowledge_base: the document and the
\* provider and use_case lines, each written only when the metadata has the key
KnowledgeEntry(doc, metadata) ==
    [doc |-> doc,
     provider |-> IF "provider" \in DOMAIN metadata THEN Some(metadata.provider) ELSE None,
     use_case |-> IF "use_case" \in DOMAIN metadata THEN Some(metadata.use_case) ELSE None]

\* CloudPricingAgent.search_knowledge_base after search_similar returned
\* `result`: the text of the tool.  The "no information" text is returned when
\* result["results"]["documents"] is false, and that value is the list holding
\* one list of documents per query text
search_knowledge_base(query, result) ==
    IF ~TruthyList(GetOr(GetOr(result, "results", EmptyDict), "documents", <<>>))
    THEN [text |-> "No relevant information found for", query |-> query]
    ELSE LET documents == result.results.documents[1]
             metadatas == result.results.metadatas[1]
         IN  [text |-> "Knowledge Base Results for", query |-> query,
              entries |-> [i \in 1..Len(documents) |->
                              KnowledgeEntry(documents[i], metadatas[i])]]

\* the agent's knowledge tool: an exception of search_similar leaves it
SearchKnowledgeBase ==
    /\ resp = NoCall
    /\ constructor_raised = None
    /\ \E query \in QueryArgs, n_results \in 0..MaxResults :
         \E result \in search_similar(collection, query, n_results, None) :
            resp' = [op |-> "search_knowledge_base", query |-> query,
                     n_results |-> n_results, result |-> result,
                     out |-> IF "raised" \in DOMAIN result THEN result
                             ELSE search_knowledge_base(query, result)]
    /\ UNCHANGED <<collection_exists, agent, ctx, data_file, constructor_raised, pricing_data,
                 collection, issued, deleted, writes>>

\* Collection.count()
collection_count(coll) == Cardinality(DOMAIN coll)

\* VectorStoreTool.get_collection_stats (the two constant fields left out)
get_collection_stats(coll) == [document_count |-> collection_count(coll)]

GetCollectionStats ==
    /\ resp = NoCall
    /\ constructor_raised = None
    /\ resp' = [op |-> "get_collection_stats", result |-> get_collection_stats(collection)]
    /\ UNCHANGED <<collection_exists, agent, ctx, data_file, constructor_raised, pricing_data,
                 collection, issued, deleted, writes>>

\* what Collection.add does with the seed documents in _populate_initial_data:
\* it stores them, or it raises (the documents could not be embedded, the
\* process was stopped) and stores nothing
AddOutcomes == {"stored", "raised"}

\* VectorStoreTool() on a persist directory in which the collection exists or
\* not and holds `coll`: the collection afterwards, the exception that left
\* the constructor, and whether get_collection found the collection.
\* create_collection has stored the new collection before _populate_initial_data
\* runs, and nothing undoes it when Collection.add raises
InitializeStore(exists, coll, add) ==
    IF exists
    THEN [collection |-> coll, raised |-> None, found |-> TRUE]
    ELSE IF add = "raised"
         THEN [collection |-> EmptyDict, raised |-> Some("Collection.add"), found |-> FALSE]
         ELSE [collection |-> populate_initial_data(EmptyDict, InitialDocuments),
               raised |-> None, found |-> FALSE]

\* VectorStoreTool() once more on the persist directory as it is now
InitializeCollection ==
    /\ resp = NoCall
    /\ \E add \in AddOutcomes :
         LET init == InitializeStore(collection_exists, collection, add)
         IN  /\ collection' = init.collection
             /\ constructor_raised' = init.raised
             /\ issued' = issued \cup DOMAIN init.collection
             /\ resp' = [op |-> "initialize_collection", found |-> init.found,
                         raised |-> init.raised, before |-> collection]
    /\ collection_exists' = TRUE
    /\ UNCHANGED <<agent, ctx, data_file, pricing_data, deleted, writes>>

\* what self.agent.run(user_query) can do: return a response object with a
\* `content` attribute, return an object without one (`text` is its str()),
\* or raise an exception whose str() is `message`
RunOutcome(raised, message, content, text) ==
    [raised |-> raised, message |-> message, content |-> content, text |-> text]

AgentRunOutcomes ==
    { RunOutcome(None, "", Some("AWS p3.2xlarge costs $3.06/hour"), "RunResponse"),
      RunOutcome(None, "", None, "AWS is cheaper"),
      RunOutcome(Some("AuthenticationError"), "Incorrect API key provided: sk-test",
                 None, ""),
      RunOutcome(Some("KeyError"), "'cloud_providers'", None, "") }

UserQueryArgs == {"What does a V100 cost on AWS?", "Compare AWS and Azure"}

\* CloudPricingAgent.analyze_query after self.agent.run: the string it
\* returns, as the list of the pieces it is put together from.  `except
\* Exception as e` returns an f-string with str(e) in it
analyze_query(run) ==
    IF run.raised # None
    THEN << "I apologize, but I encountered an error while processing your query: ",
            run.message, ". Please try again." >>
    ELSE IF run.content # None THEN <<run.content[1]>> ELSE <<run.text>>

\* CloudPricingAgent.analyze_query: no exception of agent.run leaves it
AnalyzeQuery ==
    /\ resp = NoCall
    /\ \E user_query \in UserQueryArgs, run \in AgentRunOutcomes :
         resp' = [op |-> "analyze_query", user_query |-> user_query, run |-> run,
                  raised |-> None, result |-> analyze_query(run)]
    /\ UNCHANGED <<collection_exists, agent, ctx, data_file, constructor_raised, pricing_data,
                 collection, issued, deleted, writes>>

----------------------------------------------------------------------------
(* VectorStoreTool called from two execution contexts.  add_document,        *)
(* update_document and delete_document take no lock and the class holds      *)
(* none: a context enters its method whatever the other context is doing.    *)
(* A context is "idle", then "called" (inside the method, its Collection     *)
(* call started), then "written" (the call has had its effect, the method    *)
(* has not returned yet), then "returned".  The Collection call is taken to  *)
(* have its effect at one point between its start and its return.            *)

\* the effect of the Collection call of a writer call `k`
Effect(coll, k) ==
    CASE k.op = "add_document" -> collection_add(coll, k.doc_id, k.content, k.metadata)
      [] k.op = "update_document" -> update_document(coll, k.doc_id, k.content, k.metadata)
      [] k.op = "delete_document" -> delete_document(coll, k.doc_id)

\* the writer calls a context can make now
WriterCalls ==
    {[pc |-> "called", op |-> "add_document", doc_id |-> uuid4(issued),
      content |-> d.content, metadata |-> d.metadata] : d \in NewDocuments}
      \cup {[pc |-> "called", op |-> "update_document", doc_id |-> id,
             content |-> d.content, metadata |-> d.metadata] :
               id \in DocIdArgs, d \in NewDocuments}
      \cup {[pc |-> "called", op |-> "delete_document", doc_id |-> id] : id \in DocIdArgs}

\* a context enters add_document, update_document or delete_document
CallWriter(c) ==
    /\ ctx[c].pc = "idle"
    /\ constructor_raised = None
    /\ \E k \in WriterCalls :
         /\ ctx' = [ctx EXCEPT ![c] = k]
         /\ issued' = IF k.op = "add_document" THEN issued \cup {k.doc_id} ELSE issued
    /\ UNCHANGED <<collection_exists, agent, data_file, constructor_raised, pricing_data,
                 collection, deleted, writes, resp>>

\* self.collection.add / update / delete of the context takes effect
ApplyWriter(c) ==
    /\ ctx[c].pc = "called"
    /\ collection' = Effect(collection, ctx[c])
    /\ deleted' = IF ctx[c].op = "delete_document" THEN deleted \cup {ctx[c].doc_id} ELSE deleted
    /\ writes' = writes + 1
    /\ ctx' = [ctx EXCEPT ![c].pc = "written"]
    /\ UNCHANGED <<collection_exists, agent, data_file, constructor_raised, pricing_data,
                 issued, resp>>

\* logger.info and the return of the method
ReturnWriter(c) ==
    /\ ctx[c].pc = "written"
    /\ ctx' = [ctx EXCEPT ![c].pc = "returned"]
    /\ UNCHANGED <<collection_exists, agent, data_file, constructor_raised, pricing_data,
                 collection, issued, deleted, writes, resp>>

----------------------------------------------------------------------------
(* api.py: the FastAPI application over the agent.  A text is the sequence   *)
(* of its parts, each a whitespace character or a run of other characters;   *)
(* a handler returns [status |-> 200, ...] or, for a raised HTTPException,   *)
(* the status code it carries.                                               *)

Whitespace == {" ", "\n"}

\* str.strip(): the text without its leading and trailing whitespace
RECURSIVE lstrip(_)
lstrip(s) == IF s # <<>> /\ Head(s) \in Whitespace THEN lstrip(Tail(s)) ELSE s
RECURSIVE rstrip(_)
rstrip(s) ==
    IF s # <<>> /\ s[Len(s)] \in Whitespace THEN rstrip(SubSeq(s, 1, Len(s) - 1)) ELSE s
strip(s) == rstrip(lstrip(s))

\* bool(s) of a str
TruthyText(s) == s # <<>>

\* the class attributes of Config that can be called
ConfigAttributes == {"validate_config", "get_available_models", "print_config"}

\* the environment: which API keys are set, and what CloudPricingAgent() does
ApiKeys == [OPENAI_API_KEY : BOOLEAN, ANTHROPIC_API_KEY : BOOLEAN]
ConstructionOutcomes == {"constructed", "raised"}

\* Config.validate_config: at least one API key is present
validate_config(keys) == keys.OPENAI_API_KEY \/ keys.ANTHROPIC_API_KEY

\* Config.<name>(): the value returned, or AttributeError when the class has
\* no attribute of that name
config_call(name, keys) ==
    IF name \notin ConfigAttributes THEN [raised |-> "AttributeError"]
    ELSE IF name = "validate_config" THEN [value |-> validate_config(keys)]
    ELSE [value |-> TRUE]

\* startup_event: the global agent afterwards and the exception that left it
startup_event(ag, keys, construction) ==
    LET valid == config_call("validar", keys)
    IN  IF "raised" \in DOMAIN valid
        THEN [agent |-> ag, raised |-> Some(valid.raised)]
        ELSE IF ~valid.value
             THEN [agent |-> ag, raised |-> Some("RuntimeError")]
             ELSE IF construction = "raised"
                  THEN [agent |-> ag, raised |-> Some("RuntimeError")]
                  ELSE [agent |-> Some("CloudPricingAgent"), raised |-> None]

\* health_check
health_check(ag) == [status |-> "healthy", agent_ready |-> ag # None]

\* ask_agent that looks at the question before it looks at the agent
ask_agent_QuestionFirst(ag, question, run) ==
    IF ~TruthyText(question) \/ ~TruthyText(strip(question))
    THEN [status |-> 400, calls |-> <<>>]
    ELSE IF ag = None
         THEN [status |-> 503, calls |-> <<>>]
         ELSE [status |-> 200, calls |-> <<strip(question)>>,
               body |-> [success |-> TRUE, question |-> question,
                         answer |-> analyze_query(run)]]

\* ask_agent: the response, and in `calls` the arguments agent.analyze_query
\* was called with.  analyze_query returns a text whatever agent.run does, so
\* the handler's `except Exception` (status 500) has nothing to catch
ask_agent(ag, question, run) ==
    IF ag = None
    THEN [status |-> 503, calls |-> <<>>]
    ELSE IF ~TruthyText(question) \/ ~TruthyText(strip(question))
         THEN [status |-> 400, calls |-> <<>>]
         ELSE [status |-> 200, calls |-> <<strip(question)>>,
               body |-> [success |-> TRUE, question |-> question,
                         answer |-> analyze_query(run)]]

\* the questions posted: empty, whitespace only, and texts with and without
\* whitespace around them
QuestionTexts ==
    {<<"Quanto custa GPU V100 na AWS?">>, <<"Compare AWS and Azure">>,
     <<"GPU", " ", "prices">>}
Paddings == {<<>>, <<" ">>, <<"\n", " ">>}
QuestionArgs ==
    {<<>>, <<" ">>, <<" ", "\n">>}
      \cup {pre \o q \o post : pre \in Paddings, q \in QuestionTexts, post \in Paddings}

StartupEvent ==
    /\ resp = NoCall
    /\ \E keys \in ApiKeys, construction \in ConstructionOutcomes :
         LET started == startup_event(agent, keys, construction)
         IN  /\ agent' = started.agent
             /\ resp' = [op |-> "startup_event", keys |-> keys,
                         construction |-> construction, before |-> agent,
                         raised |-> started.raised]
    /\ UNCHANGED <<collection_exists, ctx, data_file, constructor_raised, pricing_data,
                 collection, issued, deleted, writes>>

HealthCheck ==
    /\ resp = NoCall
    /\ resp' = [op |-> "health_check", result |-> health_check(agent)]
    /\ UNCHANGED <<collection_exists, agent, ctx, data_file, constructor_raised, pricing_data,
                 collection, issued, deleted, writes>>

AskAgent ==
    /\ resp = NoCall
    /\ \E question \in QuestionArgs, run \in AgentRunOutcomes :
         resp' = [op |-> "ask_agent", question |-> question,
                  response |-> ask_agent(agent, question, run)]
    /\ UNCHANGED <<collection_exists, agent, ctx, data_file, constructor_raised, pricing_data,
                 collection, issued, deleted, writes>>

----------------------------------------------------------------------------
(* Specifications: each tool object constructed on its own, as the tool      *)
(* tests construct it, and then called any number of times.                  *)

\* MockSearchTool() with `file` at data_file; the other tools are not constructed
CatalogConstructed(file) ==
    /\ data_file = file
    /\ LET loaded == load_mock_data(file)
       IN  IF "raised" \in DOMAIN loaded
           THEN constructor_raised = Some(loaded.raised) /\ pricing_data = EmptyDict
           ELSE constructor_raised = None /\ pricing_data = loaded.pricing_data
    /\ collection = EmptyDict
    /\ issued = {}
    /\ deleted = {}
    /\ writes = 0
    /\ collection_exists = FALSE
    /\ agent = None
    /\ ctx = IdleContexts
    /\ resp = NoCall

\* MockSearchTool() where no pricing file exists (the repository ships none)
InitCatalog == CatalogConstructed(AbsentFile)

NextCatalog == SearchGpuPricing \/ Return

SpecCatalog == InitCatalog /\ [][NextCatalog]_vars

\* MockSearchTool() where no pricing file exists, used through search_general
NextCatalogGeneral == SearchGeneral \/ Return

SpecCatalogGeneral == InitCatalog /\ [][NextCatalogGeneral]_vars

\* the agent's search tool function over the lists a large pricing file gives
NextRender == RenderGpuPricing \/ Return

SpecRender == InitCatalog /\ [][NextRender]_vars

\* MockSearchTool() where a pricing file exists
InitCatalogLoad == \E file \in ExistingDataFiles : CatalogConstructed(file)

SpecCatalogLoad == InitCatalogLoad /\ [][NextCatalog]_vars

\* ExternalAPITool() against the mock server: both hold no mutable data
InitExternal ==
    /\ data_file = AbsentFile
    /\ constructor_raised = None
    /\ pricing_data = EmptyDict
    /\ collection = EmptyDict
    /\ issued = {}
    /\ deleted = {}
    /\ writes = 0
    /\ collection_exists = FALSE
    /\ agent = None
    /\ ctx = IdleContexts
    /\ resp = NoCall

NextExternal == CompareCloudPrices \/ GetMarketTrends \/ Return

SpecExternal == InitExternal /\ [][NextExternal]_vars

\* VectorStoreTool._initialize_collection: on a fresh persist directory
\* get_collection fails, the collection is created and populated with the seed
\* documents; on a directory that holds the collection it is loaded as stored
\* (here: stored with no document left in it)
initialize_collection(persisted) ==
    IF persisted = None
    THEN populate_initial_data(EmptyDict, InitialDocuments)
    ELSE persisted[1]

\* a stored collection of two documents
SmallCollection ==
    populate_initial_data(EmptyDict, SubSeq(InitialDocuments, 4, 5))

PersistedCollections == {None, Some(EmptyDict), Some(SmallCollection)}

\* VectorStoreTool()
InitKnowledge ==
    /\ data_file = AbsentFile
    /\ constructor_raised = None
    /\ pricing_data = EmptyDict
    /\ \E persisted \in PersistedCollections :
         /\ collection = initialize_collection(persisted)
         /\ issued = DOMAIN initialize_collection(persisted)
    /\ deleted = {}
    /\ writes = 0
    /\ collection_exists = TRUE
    /\ agent = None
    /\ ctx = IdleContexts
    /\ resp = NoCall

NextKnowledge ==
    \/ AddDocument \/ UpdateDocument \/ DeleteDocument
    \/ SearchSimilar \/ GetDocumentById \/ SearchKnowledgeBase
    \/ GetCollectionStats \/ Return

SpecKnowledge == InitKnowledge /\ [][NextKnowledge]_vars

\* VectorStoreTool() on a fresh persist directory, which succeeded or failed in
\* Collection.add, then any number of further VectorStoreTool() on the same
\* directory with reads of the store in between, and no add, update or delete
InitStoreInit ==
    /\ data_file = AbsentFile
    /\ pricing_data = EmptyDict
    /\ \E add \in AddOutcomes :
         LET init == InitializeStore(FALSE, EmptyDict, add)
         IN  /\ collection = init.collection
             /\ constructor_raised = init.raised
             /\ issued = DOMAIN init.collection
    /\ deleted = {}
    /\ writes = 0
    /\ collection_exists = TRUE
    /\ agent = None
    /\ ctx = IdleContexts
    /\ resp = NoCall

NextStoreInit ==
    \/ InitializeCollection
    \/ SearchSimilar \/ SearchKnowledgeBase \/ GetDocumentById \/ GetCollectionStats
    \/ Return

SpecStoreInit == InitStoreInit /\ [][NextStoreInit]_vars

\* CloudPricingAgent(): the three tools constructed together (a pricing file
\* with a small catalog, a persist directory holding a small collection), then
\* called through the agent's tool functions, the reading operations of the
\* tools and analyze_query
InitAgent ==
    /\ data_file = SmallCatalogFile
    /\ constructor_raised = None
    /\ pricing_data = load_mock_data(SmallCatalogFile).pricing_data
    /\ collection = initialize_collection(Some(SmallCollection))
    /\ issued = DOMAIN collection
    /\ deleted = {}
    /\ writes = 0
    /\ collection_exists = TRUE
    /\ agent = None
    /\ ctx = IdleContexts
    /\ resp = NoCall

NextAgent ==
    \/ SearchGpuPricing \/ SearchGeneral
    \/ CompareCloudPrices \/ GetMarketTrends
    \/ SearchSimilar \/ SearchKnowledgeBase \/ GetDocumentById
    \/ AnalyzeQuery
    \/ Return

SpecAgent == InitAgent /\ [][NextAgent]_vars

\* the application of api.py: its global agent is None as the module leaves it
\* (api.py:39) or holds an agent assigned to it; the startup handler and the
\* endpoints are then called in any order
InitApi ==
    /\ data_file = AbsentFile
    /\ constructor_raised = None
    /\ pricing_data = EmptyDict
    /\ collection = EmptyDict
    /\ issued = {}
    /\ deleted = {}
    /\ writes = 0
    /\ collection_exists = FALSE
    /\ agent \in {None, Some("CloudPricingAgent")}
    /\ ctx = IdleContexts
    /\ resp = NoCall

NextApi == StartupEvent \/ HealthCheck \/ AskAgent \/ Return

SpecApi == InitApi /\ [][NextApi]_vars

\* one VectorStoreTool over a small stored collection, shared by two execution
\* contexts that each make one writer call
InitConcurrent ==
    /\ data_file = AbsentFile
    /\ constructor_raised = None
    /\ pricing_data = EmptyDict
    /\ collection = initialize_collection(Some(SmallCollection))
    /\ issued = DOMAIN collection
    /\ deleted = {}
    /\ writes = 0
    /\ collection_exists = TRUE
    /\ agent = None
    /\ ctx = IdleContexts
    /\ resp = NoCall

NextConcurrent ==
    \E c \in Contexts : CallWriter(c) \/ ApplyWriter(c) \/ ReturnWriter(c)

SpecConcurrent == InitConcurrent /\ [][NextConcurrent]_vars

----------------------------------------------------------------------------
(* Properties *)

\* round(a / n) for integers a and n > 0 (to the nearest integer)
RoundDiv(a, n) == (2 * a + n) \div (2 * n)

RECURSIVE SumChange(_)
SumChange(entries) ==
    IF entries = <<>> THEN 0
    ELSE Head(entries).val.change_percent + SumChange(Tail(entries))

\* the stored comparison entry of an (upper-cased) pair in either order
StoredIn(P1, P2, k) ==
    IF HasComparison(<<P1, P2>>, k)
    THEN DictGet(DictGet(mock_comparisons, <<P1, P2>>), k)
    ELSE DictGet(DictGet(mock_comparisons, <<P2, P1>>), k)

IsStored(P1, P2, k) == HasComparison(<<P1, P2>>, k) \/ HasComparison(<<P2, P1>>, k)

\* C1: every record search_gpu_pricing returns satisfies every filter that was
\* given (a value other than None, 0 included): provider and gpu_type equal the
\* requested ones, gpu_count >= min_gpu_count and price_per_hour <= max_price.
C1_ResultsSatisfyGivenFilters ==
    resp.op = "search_gpu_pricing" =>
        \A i \in 1..Len(resp.results) :
            LET r == resp.results[i]
            IN  /\ resp.provider # None => r.provider = resp.provider[1]
                /\ resp.gpu_type # None => r.gpu_type = resp.gpu_type[1]
                /\ resp.min_gpu_count # None => r.gpu_count >= resp.min_gpu_count[1]
                /\ resp.max_price # None => r.price_per_hour <= resp.max_price[1]

\* C2: for a stored entry of a pair (A,B) and key k, compare(A,B,k) and
\* compare(B,A,k) both succeed, report the same recommendation and
\* savings_percent, and each provider's price field holds that provider's own
\* stored price.
C2_CompareSymmetricAndAttributed ==
    (/\ resp.op = "compare_cloud_prices"
     /\ resp.reachable
     /\ IsStored(Upper(resp.provider1), Upper(resp.provider2), resp.instance_type)) =>
        LET data == StoredIn(Upper(resp.provider1), Upper(resp.provider2), resp.instance_type)
            this == resp.result
            swapped == client_compare_prices(resp.provider2, resp.provider1,
                                             resp.instance_type, TRUE)
            own(res, p) == Get(GetOr(res, "comparison", EmptyDict), PriceKey(Lower(p)))
                             = Some(data[PriceKey(Lower(p))])
        IN  /\ GetOr(this, "status", "") = "success"
            /\ GetOr(swapped, "status", "") = "success"
            /\ this.comparison.recommendation = swapped.comparison.recommendation
            /\ this.comparison.savings_percent = swapped.comparison.savings_percent
            /\ \A p \in {resp.provider1, resp.provider2} : own(this, p) /\ own(swapped, p)

\* C3: the all-provider trend query returns an average_change_percent equal to
\* the mean of the stored per-provider change_percent values, rounded to one
\* decimal (-5.6 for -2.1, -8.5, -6.3).
C3_AverageIsMeanOfProviders ==
    (/\ resp.op = "get_market_trends"
     /\ ~TruthyStr(resp.provider)
     /\ resp.reachable) =>
        /\ GetOr(resp.result, "status", "") = "success"
        /\ resp.result.market_trends.average_change_percent
             = RoundDiv(SumChange(trends.providers), Len(trends.providers))
        /\ resp.out.average_change
             = RoundDiv(SumChange(trends.providers), Len(trends.providers))

\* C4: the single-provider trend query returns, for every provider that has a
\* record in the trend table, that provider's own trend and change_percent, and
\* NotFound for a provider that has none.
C4_SingleProviderTrend ==
    (/\ resp.op = "get_market_trends"
     /\ TruthyStr(resp.provider)
     /\ resp.reachable) =>
        IF DictHas(trends.providers, resp.provider[1])
        THEN /\ GetOr(resp.result, "status", "") = "success"
             /\ GetOr(resp.result, "trend", "")
                  = DictGet(trends.providers, resp.provider[1]).trend
             /\ GetOr(resp.result, "change_percent", 0)
                  = DictGet(trends.providers, resp.provider[1]).change_percent
        ELSE (\A i \in 1..Len(trends.providers) :
                  Upper(trends.providers[i].key) # Upper(resp.provider[1]))
             => GetOr(resp.result, "status", "") = "error"

\* C5: for a pair and key with no stored entry in either order, compare returns
\* an error result that echoes the attempted providers and key, and no
\* exception leaves the call.
C5_UnknownComparisonIsNotFound ==
    (/\ resp.op = "compare_cloud_prices"
     /\ ~IsStored(Upper(resp.provider1), Upper(resp.provider2), resp.instance_type)) =>
        LET comparison == GetOr(resp.result, "comparison", EmptyDict)
        IN  /\ "raised" \notin DOMAIN resp.result
            /\ "raised" \notin DOMAIN resp.out
            /\ GetOr(resp.result, "status", "") = "error"
            /\ Get(comparison, "provider1") = Some(resp.provider1)
            /\ Get(comparison, "provider2") = Some(resp.provider2)
            /\ Get(comparison, "instance_type") = Some(resp.instance_type)
            /\ resp.out.text = "Unable to compare prices"

\* C5 witness: the server was reached and answered 404 for an unknown key of a
\* stored pair
C5_Witness ==
    /\ resp.op = "compare_cloud_prices"
    /\ resp.reachable
    /\ resp.provider1 = "AWS" /\ resp.provider2 = "Azure"
    /\ resp.instance_type = "V100"
    /\ resp.result.status = "error"

\* C6: compare_prices with provider1 = Azure, provider2 = AWS, key = V100
\* returns Azure price 2.80, AWS price 3.06, cheaper provider Azure, savings 8.5.
C6_AzureAwsV100 ==
    (/\ resp.op = "compare_cloud_prices"
     /\ resp.reachable
     /\ resp.provider1 = "Azure" /\ resp.provider2 = "AWS"
     /\ resp.instance_type = "V100") =>
        /\ Get(resp.out, "p1_price") = Some(280)
        /\ Get(resp.out, "p2_price") = Some(306)
        /\ Get(resp.out, "recommendation") = Some("Azure")
        /\ Get(resp.out, "savings") = Some(Some(85))

ReturnedIds(result) ==
    IF "results" \in DOMAIN result THEN result.results.ids[1] ELSE <<>>

\* the distances a search_similar call returned (none when it raised)
ReturnedDistances(result) ==
    IF "results" \in DOMAIN result THEN result.results.distances[1] ELSE <<>>

\* C9: once delete_document(id) was called, the id is not in the store, no
\* search_similar returns it and get_document_by_id(id) returns None, whatever
\* calls follow.
C9_DeletedNeverReturned ==
    \A id \in deleted :
        /\ id \notin DOMAIN collection
        /\ resp.op = "search_similar" =>
              \A i \in 1..Len(ReturnedIds(resp.result)) :
                  ReturnedIds(resp.result)[i] # id
        /\ (resp.op = "get_document_by_id" /\ resp.doc_id = id) => resp.result = None
        /\ resp.op = "add_document" => resp.doc_id # id

\* C9 witness: a seed document was deleted, a document was added afterwards or
\* before, and a search over the whole store returned
C9_Witness ==
    /\ \E id \in deleted : id \in issued
    /\ Cardinality(issued) > Len(InitialDocuments)
    /\ resp.op = "search_similar"
    /\ resp.where = None
    /\ Len(ReturnedIds(resp.result)) = MaxResults

\* C10: after update(id, content, metadata) on a stored document,
\* get_document_by_id(id) returns exactly the new content and the new metadata
\* under the same id; the number of documents and every other document are
\* unchanged.
C10_UpdateReplaces ==
    (resp.op = "update_document" /\ resp.doc_id \in DOMAIN resp.before) =>
        /\ get_document_by_id(collection, resp.doc_id)
             = Some([id |-> resp.doc_id, content |-> resp.content,
                     metadata |-> resp.metadata])
        /\ DOMAIN collection = DOMAIN resp.before
        /\ \A id \in DOMAIN collection \ {resp.doc_id} : collection[id] = resp.before[id]

\* C11: search_similar(query, k) returns at most k documents, nearest first
\* (relevance never increases along the list); with k = 0, or on a store with
\* no document, it returns an empty list and does not raise.
C11_RetrieveAtMostKOrdered ==
    resp.op = "search_similar" =>
        LET d == ReturnedDistances(resp.result)
        IN  /\ "raised" \notin DOMAIN resp.result
            /\ Len(d) <= resp.n_results
            /\ \A i, j \in 1..Len(d) : i < j => d[i] <= d[j]
            /\ (resp.n_results = 0 \/ collection = EmptyDict) => d = <<>>

\* C12: for an id that is not in the store, update_document fails with NotFound
\* and delete_document is a no-op; in both cases the set of documents is left
\* exactly as it was.
C12_MissingIdUpdateFailsDeleteNoOp ==
    (resp.op \in {"update_document", "delete_document"}
        /\ resp.doc_id \notin DOMAIN resp.before) =>
        /\ collection = resp.before
        /\ resp.op = "update_document" => resp.raised = Some("NotFound")
        /\ resp.op = "delete_document" => resp.raised = None

\* C13: when retrieval yields no document, the search_knowledge_base tool
\* returns the explicit "No relevant information found" text, not a results
\* listing with no entry, and does not raise.
C13_NoDocumentsGivesExplicitMessage ==
    (resp.op = "search_knowledge_base"
        /\ "results" \in DOMAIN resp.result
        /\ ReturnedIds(resp.result) = <<>>) =>
        /\ "raised" \notin DOMAIN resp.out
        /\ GetOr(resp.out, "text", "") = "No relevant information found for"
        /\ "entries" \notin DOMAIN resp.out

\* the records of a result list, as a set
RecordSet(results) == {results[i] : i \in 1..Len(results)}

\* C14: the provider filter of the catalog search matches case-insensitively:
\* a search whose provider is a catalog provider in another capitalisation
\* ("aws", "Aws") returns the same set of records as the search with the
\* catalog's own spelling ("AWS").
C14_ProviderMatchIgnoresCase ==
    (resp.op = "search_gpu_pricing" /\ resp.provider # None) =>
        \A i \in 1..Len(DictKeys(pricing_data.cloud_providers)) :
            LET key == DictKeys(pricing_data.cloud_providers)[i]
            IN  Upper(key) = Upper(resp.provider[1]) =>
                    RecordSet(resp.results)
                      = RecordSet(CollectResults(pricing_data.cloud_providers, <<key>>,
                                                 resp.gpu_type, resp.min_gpu_count,
                                                 resp.max_price))

\* a catalog record satisfies the filters that were given (None is "not
\* given"): provider equal up to case, gpu_type equal, gpu_count at least
\* min_gpu_count, price at most max_price
SatisfiesGivenFilters(prov, instance_data, provider, gpu_type, min_gpu_count, max_price) ==
    /\ provider # None => Upper(provider[1]) = Upper(prov)
    /\ gpu_type # None => instance_data.gpu_type = gpu_type[1]
    /\ min_gpu_count # None => instance_data.gpu_count >= min_gpu_count[1]
    /\ max_price # None => instance_data.price_per_hour <= max_price[1]

\* C15: the filtered catalog search is complete: every catalog record that
\* satisfies all given filters is in the returned list (none is dropped, there
\* is no cap), so with no filter every record of every provider is returned.
C15_SearchIsComplete ==
    resp.op = "search_gpu_pricing" =>
        \A i \in 1..Len(pricing_data.cloud_providers) :
            \A j \in 1..Len(pricing_data.cloud_providers[i].val) :
                LET prov == pricing_data.cloud_providers[i].key
                    gpu == pricing_data.cloud_providers[i].val[j]
                IN  SatisfiesGivenFilters(prov, gpu.val, resp.provider, resp.gpu_type,
                                          resp.min_gpu_count, resp.max_price)
                    => ([provider |-> prov, instance_type |-> gpu.key] @@ gpu.val)
                           \in RecordSet(resp.results)

\* C16: a catalog search whose provider filter names a provider that is not
\* in the catalog returns an empty result and raises no error, whatever the
\* other filters are; the agent tool answers with its "No GPU instances found"
\* sentence.
C16_UnknownProviderEmpty ==
    (resp.op = "search_gpu_pricing"
        /\ resp.provider # None
        /\ \A i \in 1..Len(pricing_data.cloud_providers) :
              Upper(pricing_data.cloud_providers[i].key) # Upper(resp.provider[1])) =>
        /\ "raised" \notin DOMAIN resp
        /\ GetOr(resp, "results", <<"none">>) = <<>>
        /\ GetOr(resp, "out", EmptyDict)
             = [text |-> "No GPU instances found matching the specified criteria."]

\* C16 witness: a search for provider "IBM" with two more filters returned
\* the empty list
C16_Witness ==
    /\ resp.op = "search_gpu_pricing"
    /\ resp.provider = Some("IBM")
    /\ resp.gpu_type = Some("K80")
    /\ resp.max_price = Some(306)
    /\ GetOr(resp, "results", <<"none">>) = <<>>

\* C18: when the pricing file is absent, constructing the catalog does not
\* fail: it holds the built-in default data (AWS, Azure and GCP with three
\* instances each) and searches run over that data.
C18_AbsentFileLoadsDefaults ==
    ~data_file.exists =>
        /\ constructor_raised = None
        /\ pricing_data = create_default_data
        /\ DictKeys(GetOr(pricing_data, "cloud_providers", <<>>)) = <<"AWS", "Azure", "GCP">>
        /\ \A i \in 1..Len(GetOr(pricing_data, "cloud_providers", <<>>)) :
              Len(pricing_data.cloud_providers[i].val) = 3
        /\ resp.op = "search_gpu_pricing" =>
              /\ "raised" \notin DOMAIN resp
              /\ RecordSet(GetOr(resp, "results", <<>>))
                   = RecordSet(CollectResults(default_cloud_providers,
                                   ProvidersToSearch(default_cloud_providers, resp.provider),
                                   resp.gpu_type, resp.min_gpu_count, resp.max_price))

\* C18 witness: the tool was constructed without a pricing file and a search
\* with no filter returned the nine default records
C18_Witness ==
    /\ ~data_file.exists
    /\ constructor_raised = None
    /\ resp.op = "search_gpu_pricing"
    /\ resp.provider = None
    /\ Len(GetOr(resp, "results", <<>>)) = 9

\* the pricing file exists and holds no catalog: it cannot be read, is not
\* JSON, or is JSON without "cloud_providers"
FailsToLoad(file) ==
    /\ file.exists
    /\ \/ ~file.readable
       \/ file.content = None
       \/ "cloud_providers" \notin DOMAIN file.content[1]

\* C19: when the pricing file exists but fails to load (unreadable, not valid
\* JSON, or without the provider structure), the catalog holds the built-in
\* default data; neither the construction nor a later search raises.
C19_FailedLoadFallsBack ==
    FailsToLoad(data_file) =>
        /\ constructor_raised = None
        /\ pricing_data = create_default_data
        /\ resp.op = "search_gpu_pricing" => "raised" \notin DOMAIN resp

\* the reading operations
ReadOps ==
    {"search_gpu_pricing", "search_general", "compare_cloud_prices",
     "get_market_trends", "search_similar", "search_knowledge_base",
     "get_document_by_id"}

\* the catalog the tools of SpecAgent were constructed with
InitialCatalog == load_mock_data(SmallCatalogFile).pricing_data.cloud_providers

\* what a read returned is what the data the tools were constructed with gives
\* for its arguments
ReadOfInitialData ==
    /\ resp.op = "search_gpu_pricing" =>
          RecordSet(GetOr(resp, "results", <<>>))
            = RecordSet(CollectResults(InitialCatalog,
                            ProvidersToSearch(InitialCatalog, resp.provider),
                            resp.gpu_type, resp.min_gpu_count, resp.max_price))
    /\ resp.op = "search_general" =>
          /\ GetOr(resp.result, "type", "") = GeneralType(resp.query)
          /\ GeneralType(resp.query) = "gpu_pricing" =>
                RecordSet(resp.result.results)
                  = RecordSet(CollectResults(InitialCatalog, DictKeys(InitialCatalog),
                                             None, None, None))
          /\ GeneralType(resp.query) = "cloud_providers" =>
                resp.result.results = DictKeys(InitialCatalog)
    /\ resp.op = "search_similar" =>
          resp.result \in search_similar(SmallCollection, resp.query,
                                         resp.n_results, resp.where)
    /\ resp.op = "get_document_by_id" =>
          resp.result = get_document_by_id(SmallCollection, resp.doc_id)

\* C17: any sequence of search_gpu_pricing, search_general, compare_prices,
\* get_market_trends and knowledge retrieve calls leaves the pricing catalog
\* and the knowledge documents unchanged (the comparison and trend tables are
\* literals of the handlers), so a read returns the same set of records
\* whichever reads came before it.
C17_ReadsLeaveDataUnchanged ==
    [][resp'.op \in ReadOps
          => /\ pricing_data' = pricing_data
             /\ collection' = collection
             /\ ReadOfInitialData']_vars

\* C17 witness: a search over the whole catalog returned every record of it
\* with the catalog and the knowledge store as they were constructed
C17_Witness ==
    /\ resp.op = "search_general"
    /\ GetOr(resp.result, "type", "") = "gpu_pricing"
    /\ Len(resp.result.results) = 4
    /\ pricing_data.cloud_providers = InitialCatalog
    /\ collection = SmallCollection

\* C20: an unexpected exception raised inside a component while a query is
\* processed is caught at the boundary and turned into a returned generic
\* failure text: the call does not raise, and the text it returns holds no
\* internal detail such as the exception's message.
C20_FailureIsGeneric ==
    (resp.op = "analyze_query" /\ resp.run.raised # None) =>
        /\ resp.raised = None
        /\ \A i \in 1..Len(resp.result) : resp.result[i] # resp.run.message

\* the stored prices of the first and the second provider of a table key
PriceOfFirst(key, data) == data[PriceKey(Lower(key[1]))]
PriceOfSecond(key, data) == data[PriceKey(Lower(key[2]))]

\* C22: for every entry stored in the comparison table, the recommended
\* provider is one of the entry's two providers (the key holds them in upper
\* case) and is the one with the lower stored price; a successful comparison
\* hands out the stored recommendation.
C22_RecommendedIsCheaper ==
    /\ \A i \in 1..Len(mock_comparisons) :
          \A j \in 1..Len(mock_comparisons[i].val) :
              LET key == mock_comparisons[i].key
                  data == mock_comparisons[i].val[j].val
              IN  /\ Upper(data.recommendation) \in {key[1], key[2]}
                  /\ Upper(data.recommendation) = key[1]
                        => PriceOfFirst(key, data) <= PriceOfSecond(key, data)
                  /\ Upper(data.recommendation) = key[2]
                        => PriceOfSecond(key, data) <= PriceOfFirst(key, data)
    /\ (resp.op = "compare_cloud_prices"
          /\ GetOr(resp.result, "status", "") = "success") =>
          resp.result.comparison.recommendation
            = StoredIn(Upper(resp.provider1), Upper(resp.provider2),
                       resp.instance_type).recommendation

\* C22 witness: the stored AWS/Azure entry was served with Azure recommended
C22_Witness ==
    /\ resp.op = "compare_cloud_prices"
    /\ resp.provider1 = "AWS" /\ resp.provider2 = "Azure"
    /\ resp.instance_type = "p3.2xlarge"
    /\ GetOr(resp.result, "status", "") = "success"
    /\ resp.result.comparison.recommendation = "Azure"

\* C23: for every entry stored in the comparison table, savings_percent is not
\* negative and equals (max - min) / max * 100 of its two prices, rounded to
\* one decimal; a successful comparison hands out the stored value.
C23_SavingsPercentFormula ==
    /\ \A i \in 1..Len(mock_comparisons) :
          \A j \in 1..Len(mock_comparisons[i].val) :
              LET key == mock_comparisons[i].key
                  data == mock_comparisons[i].val[j].val
                  a == PriceOfFirst(key, data)
                  b == PriceOfSecond(key, data)
                  max == IF a > b THEN a ELSE b
                  min == IF a > b THEN b ELSE a
              IN  /\ data.savings_percent >= 0
                  /\ data.savings_percent = RoundDiv(1000 * (max - min), max)
    /\ (resp.op = "compare_cloud_prices"
          /\ GetOr(resp.result, "status", "") = "success") =>
          resp.result.comparison.savings_percent
            = StoredIn(Upper(resp.provider1), Upper(resp.provider2),
                       resp.instance_type).savings_percent

\* C23 witness: the stored Azure/GCP entry was served with its saving of 22.2
C23_Witness ==
    /\ resp.op = "compare_cloud_prices"
    /\ resp.provider1 = "Azure" /\ resp.provider2 = "GCP"
    /\ resp.instance_type = "NC6"
    /\ GetOr(resp.result, "status", "") = "success"
    /\ resp.result.comparison.savings_percent = 222

\* C24: the free-text search returns at most 5 results for every query,
\* however many catalog records match.
C24_FreeTextAtMostFive ==
    (resp.op = "search_general"
        /\ GetOr(resp.result, "type", "") \in {"gpu_pricing", "cloud_providers"}) =>
        Len(resp.result.results) <= 5

\* the records of the catalog that satisfy the given filters
MatchingRecords(catalog, provider, gpu_type, min_gpu_count, max_price) ==
    UNION {{[provider |-> catalog[i].key, instance_type |-> catalog[i].val[j].key]
               @@ catalog[i].val[j].val :
               j \in {k \in 1..Len(catalog[i].val) :
                         SatisfiesGivenFilters(catalog[i].key, catalog[i].val[k].val,
                                               provider, gpu_type, min_gpu_count,
                                               max_price)}} :
           i \in 1..Len(catalog)}

\* no two records of the list have the same (provider, instance_type)
NoDuplicateKeys(results) ==
    \A i, j \in 1..Len(results) :
        i < j => \/ results[i].provider # results[j].provider
                 \/ results[i].instance_type # results[j].instance_type

\* C25: search_gpu_pricing never returns two records with the same
\* (provider, instance_type): for every filter combination and every shuffle
\* outcome the result is a permutation of the distinct catalog records that
\* match the filters, each with the provider and instance_type it is stored
\* under.
C25_PermutationOfMatching ==
    resp.op = "search_gpu_pricing" =>
        LET results == GetOr(resp, "results", <<>>)
            catalog == GetOr(pricing_data, "cloud_providers", <<>>)
        IN  /\ NoDuplicateKeys(results)
            /\ RecordSet(results)
                 = MatchingRecords(catalog, resp.provider, resp.gpu_type,
                                   resp.min_gpu_count, resp.max_price)

\* C26: the agent's search_gpu_pricing tool renders at most 10 records: for n
\* matches the header reports n, exactly min(n, 10) records are listed (the
\* first ones of the list), a trailer reporting exactly n - 10 further results
\* is there if and only if n > 10, and for n = 0 the "No GPU instances found"
\* sentence is returned in place of a listing.
C26_RendersAtMostTen ==
    resp.op = "render_gpu_pricing" =>
        LET n == Len(resp.results)
            shown == IF n < 10 THEN n ELSE 10
        IN  /\ n = 0 =>
                  resp.out = [text |-> "No GPU instances found matching the specified criteria."]
            /\ n > 0 =>
                  /\ GetOr(resp.out, "text", "") = "Found GPU instances"
                  /\ GetOr(resp.out, "found", -1) = n
                  /\ GetOr(resp.out, "listed", <<>>) = SubSeq(resp.results, 1, shown)
                  /\ (GetOr(resp.out, "more", None) # None) <=> (n > 10)
                  /\ n > 10 => GetOr(resp.out, "more", None) = Some(n - 10)

\* C26 witness: the tool returned more than ten records and the text lists ten
\* of them with a trailer
C26_Witness ==
    /\ resp.op = "render_gpu_pricing"
    /\ Len(resp.results) = 12
    /\ Len(GetOr(resp.out, "listed", <<>>)) = 10
    /\ GetOr(resp.out, "more", None) = Some(2)

\* what a returned knowledge-store call did to the number of documents
CountAfterCall ==
    /\ resp.op = "get_collection_stats" =>
          resp.result.document_count = Cardinality(DOMAIN collection)
    /\ resp.op = "add_document" =>
          /\ resp.doc_id \notin DOMAIN resp.before
          /\ collection_count(collection) = collection_count(resp.before) + 1
          /\ get_document_by_id(collection, resp.doc_id)
               = Some([id |-> resp.doc_id, content |-> resp.content,
                       metadata |-> resp.metadata])
    /\ resp.op = "delete_document" =>
          collection_count(collection)
            = collection_count(resp.before)
                - (IF resp.doc_id \in DOMAIN resp.before THEN 1 ELSE 0)
    /\ resp.op = "update_document" =>
          collection_count(collection) = collection_count(resp.before)

\* C28: after any sequence of add_document, update_document, delete_document,
\* search_similar and get_document_by_id calls, the document_count of
\* get_collection_stats is the number of distinct ids stored: each add returns
\* an id that was not in the store and raises the count by one (and
\* get_document_by_id of that id gives the added content and metadata), each
\* delete of a stored id lowers it by one, and update, search_similar and
\* get_document_by_id leave it unchanged.
C28_DocumentCountTracksIds ==
    [][/\ CountAfterCall'
       /\ resp'.op \in {"search_similar", "get_document_by_id", "search_knowledge_base",
                         "get_collection_stats", "none"}
            => collection_count(collection') = collection_count(collection)]_vars

\* C28 witness: after an add and a delete of a stored document the count is
\* read and is again the number of seed documents
C28_Witness ==
    /\ resp.op = "get_collection_stats"
    /\ writes = 2
    /\ Cardinality(issued) = Len(InitialDocuments) + 1
    /\ \E id \in deleted : id \in issued
    /\ resp.result.document_count = Len(InitialDocuments)

\* how many stored documents are the seed document `d`
Copies(d) == Cardinality({id \in DOMAIN collection : collection[id] = d})

\* C27: the seed documents are added once per collection: a VectorStoreTool()
\* that finds the collection adds nothing, one that does not find it adds
\* exactly the seed documents, and so a successfully constructed store over a
\* directory that saw only initializations (one that failed part-way included)
\* holds each seed document exactly once.
C27_SeededExactlyOnce ==
    /\ (resp.op = "initialize_collection" /\ resp.found) => collection = resp.before
    /\ (resp.op = "initialize_collection" /\ ~resp.found /\ resp.raised = None) =>
           collection_count(collection) = Len(InitialDocuments)
    /\ constructor_raised = None =>
           \A i \in 1..Len(InitialDocuments) : Copies(InitialDocuments[i]) = 1

\* C30: a startup whose configuration has no API key aborts with RuntimeError
\* and leaves the agent unset; a startup whose configuration is valid and whose
\* CloudPricingAgent() succeeds completes with the agent set, after which
\* /health reports agent_ready and /ask does not answer 503.
C30_StartupSetsAgent ==
    /\ resp.op = "startup_event" =>
          /\ ~validate_config(resp.keys) =>
                resp.raised = Some("RuntimeError") /\ agent = resp.before
          /\ (validate_config(resp.keys) /\ resp.construction = "constructed") =>
                resp.raised = None /\ agent # None
    /\ resp.op = "health_check" => resp.result.agent_ready = (agent # None)
    /\ (resp.op = "ask_agent" /\ agent # None) => resp.response.status # 503

\* the text `t` is the question `q` without the whitespace around it
IsStrippedOf(t, q) ==
    /\ t # <<>>
    /\ Head(t) \notin Whitespace
    /\ t[Len(t)] \notin Whitespace
    /\ \E i \in 0..Len(q) :
         /\ i + Len(t) <= Len(q)
         /\ SubSeq(q, i + 1, i + Len(t)) = t
         /\ \A j \in 1..Len(q) : (j <= i \/ j > i + Len(t)) => q[j] \in Whitespace

IsBlank(q) == \A j \in 1..Len(q) : q[j] \in Whitespace

\* C29: /ask answers 503 whenever the agent is unset, whatever the question;
\* 400 when the agent is set and the question is empty or whitespace only;
\* and only otherwise calls agent.analyze_query, exactly once, with the
\* stripped question.  In the 503 and 400 cases the agent is not called.
C29_AskGuardsInOrder ==
    resp.op = "ask_agent" =>
        LET r == resp.response
            q == resp.question
        IN  /\ agent = None => r.status = 503 /\ r.calls = <<>>
            /\ (agent # None /\ IsBlank(q)) => r.status = 400 /\ r.calls = <<>>
            /\ (agent # None /\ ~IsBlank(q)) =>
                  /\ r.status \notin {503, 400}
                  /\ Len(r.calls) = 1
                  /\ IsStrippedOf(r.calls[1], q)

C29_Witness ==
    /\ resp.op = "ask_agent"
    /\ agent # None
    /\ resp.question = <<"\n", " ", "GPU", " ", "prices", " ">>
    /\ resp.response.status = 200
    /\ resp.response.calls = << <<"GPU", " ", "prices">> >>

\* a context is inside a writer method of the store
InWriter(c) == ctx[c].pc \in {"called", "written"}

\* the collections the two calls give when run one after the other
SerialOutcomes(k1, k2) ==
    { Effect(Effect(SmallCollection, k1), k2), Effect(Effect(SmallCollection, k2), k1) }

\* C21: writers of the knowledge store exclude each other: two contexts are
\* never inside add/update/delete at the same time, and an update and a
\* delete of one id made by two contexts leave the collection as one of the
\* two serial orders leaves it.
C21_WritersMutuallyExclusive ==
    /\ \A c1, c2 \in Contexts : (c1 # c2 /\ InWriter(c1)) => ~InWriter(c2)
    /\ \A c1, c2 \in Contexts :
         ( /\ ctx[c1].pc = "returned" /\ ctx[c2].pc = "returned"
           /\ ctx[c1].op = "update_document" /\ ctx[c2].op = "delete_document"
           /\ ctx[c1].doc_id = ctx[c2].doc_id )
           => collection \in SerialOutcomes(ctx[c1], ctx[c2])

====
